---- MODULE Spec2Model ----
(***************************************************************************)
(* Model of turbopack-ecmascript/src/references/worker.rs:                 *)
(* WorkerAssetReference, its resolve_reference / to_string /               *)
(* chunking_type / code_generation tasks and the expression visitor that   *)
(* code_generation registers for the `new Worker(..)` site.                *)
(***************************************************************************)
EXTENDS Integers, Sequences, FiniteSets, TLC

\* ------------------------------------------------------------------ bounds
\* longest argument list of a `new` expression at the site
MaxArgs == 2
\* number of lines the shared standard output may hold
MaxOut == 2

\* ------------------------------------------------------------ value domains
None == [some |-> FALSE]
Some(x) == [some |-> TRUE, value |-> x]
Ok(x) == [ok |-> TRUE, value |-> x]
Err == [ok |-> FALSE]

Origins == {"o1", "o2"}
\* "./w.js" resolves, "./missing.js" is unresolvable, reading "./broken.js" fails
Requests == {"./w.js", "./missing.js", "./broken.js"}
Paths == {"p1", "p2"}
IssueSources == {"src1"}
ChunkingContexts == {"edge_ctx", "nodejs_ctx", "dom_ctx"}

SeqsUpTo(S, n) == UNION {[1..k -> S] : k \in 0..n}

\* --------------------------------------------------------------- the syntax
Ident(sym) == [type |-> "Ident", sym |-> sym]
Str(value) == [type |-> "Lit", value |-> value]
ExprOrSpread(spread, expr) == [spread |-> spread, expr |-> expr]
NewExpr(callee, args) == [type |-> "New", callee |-> callee, args |-> args]
CallExpr(callee, args) == [type |-> "Call", callee |-> callee, args |-> args]

ArgExprs == {Ident("a"), Str("./w.js")}
Args == {ExprOrSpread(s, e) : s \in {None, Some("...")}, e \in ArgExprs}
NewExprs == {NewExpr(Ident("Worker"), a) :
               a \in {None} \cup {Some(l) : l \in SeqsUpTo(Args, MaxArgs)}}
OtherExprs == {CallExpr(Ident("Worker"), <<>>), Ident("Worker")}
SiteExprs == NewExprs \cup OtherExprs

\* ------------------------------------------------------ the reference value
new(origin, request, path, issue_source, in_try, import_externals) ==
  [origin |-> origin, request |-> request, path |-> path,
   issue_source |-> issue_source, in_try |-> in_try,
   import_externals |-> import_externals]

\* --------------------------------------------------- external collaborators
try_to_severity(in_try) == IF in_try THEN "Warning" ELSE "Error"

url_resolve(call) ==
  IF call.request = "./broken.js" THEN Err
  ELSE IF call.request = "./missing.js" THEN Ok([targets |-> {}])
  ELSE Ok([targets |-> {<<call.origin, call.request>>}])

chunk_loading(chunking_context) ==
  IF chunking_context = "edge_ctx" THEN "Edge"
  ELSE IF chunking_context = "nodejs_ctx" THEN "NodeJs"
  ELSE "Dom"

resolve_request(request, origin, chunking_context, resolve_result, resolve_type) ==
  [request |-> request, origin |-> origin,
   chunking_context |-> chunking_context,
   resolve_result |-> resolve_result, resolve_type |-> resolve_type]

create_import(pm, key_expr, import_externals) ==
  [type |-> "Import", pm |-> pm, key_expr |-> key_expr,
   import_externals |-> import_externals]

request_to_string(request) == request

\* ------------------------------------------------------- the resolver call
worker_resolve_reference_inline_error(reference) ==
  [origin |-> reference.origin,
   request |-> reference.request,
   reference_type |-> <<"Url", "EcmaScriptNewUrl">>,
   issue_source |-> Some(reference.issue_source),
   severity |-> "Error"]

worker_resolve_reference_inline(reference) ==
  [origin |-> reference.origin,
   request |-> reference.request,
   reference_type |-> <<"Url", "EcmaScriptNewUrl">>,
   issue_source |-> Some(reference.issue_source),
   severity |-> try_to_severity(reference.in_try)]

\* ------------------------------------------------------------ chunking type
chunking_type_parallel(reference) == Some("Parallel")

chunking_type(reference) == Some("Async")

\* -------------------------------------------------------------- loader kind
resolve_type_async_only(chunking_context) == "AsyncChunkLoader"

resolve_type(chunking_context) ==
  IF chunk_loading(chunking_context) = "Edge"
  THEN "ChunkItem"
  ELSE "AsyncChunkLoader"

\* ------------------------------------------------------------- the visitor
SpreadMessageNoPeriod == "spread operator is illegal in new Worker() expressions"

SpreadMessage == "spread operator is illegal in new Worker() expressions."

ArgumentMessage == "new Worker() expressions require at least 1 argument"

CallExprMessageNew == "visitor must be executed on a NewExpr"

CallExprMessage == "visitor must be executed on a CallExpr"

\* (() => { throw new Error($message); })()
quote_expr(message) ==
  CallExpr(
    [type |-> "Paren",
     expr |-> [type |-> "Arrow", params |-> <<>>,
               body |-> <<[type |-> "Throw",
                           arg |-> NewExpr(Ident("Error"),
                                     Some(<<ExprOrSpread(None, message)>>))]>>]],
    <<>>)

\* args.into_iter().next(), demanding a sole argument
next_sole(args) == IF Len(args) = 1 THEN Some(args[1]) ELSE None

\* args.into_iter().next()
next(args) == IF Len(args) > 0 THEN Some(args[1]) ELSE None

visit_mut_expr_flipped(old_expr, pm, import_externals) ==
  IF old_expr.type = "New" THEN
    IF old_expr.args.some THEN
      LET first == next(old_expr.args.value) IN
      IF first.some /\ ~first.value.spread.some
      THEN create_import(pm, first.value.expr, ~import_externals)
      ELSE IF first.some
      THEN quote_expr(Str(SpreadMessage))
      ELSE quote_expr(Str(ArgumentMessage))
    ELSE quote_expr(Str(ArgumentMessage))
  ELSE quote_expr(Str(CallExprMessage))

visit_mut_expr_absent(old_expr, pm, import_externals) ==
  IF old_expr.type = "New" /\ old_expr.args.some THEN
    LET first == next(old_expr.args.value) IN
    IF first.some /\ ~first.value.spread.some
    THEN create_import(pm, first.value.expr, import_externals)
    ELSE IF first.some
    THEN quote_expr(Str(SpreadMessage))
    ELSE quote_expr(Str(ArgumentMessage))
  ELSE quote_expr(Str(CallExprMessage))

visit_mut_expr(old_expr, pm, import_externals) ==
  IF old_expr.type = "New" THEN
    IF old_expr.args.some THEN
      LET first == next(old_expr.args.value) IN
      IF first.some /\ ~first.value.spread.some
      THEN create_import(pm, first.value.expr, import_externals)
      ELSE IF first.some
      THEN quote_expr(Str(SpreadMessage))
      ELSE quote_expr(Str(ArgumentMessage))
    ELSE quote_expr(Str(ArgumentMessage))
  ELSE quote_expr(Str(CallExprMessage))

\* ------------------------------------------------- the registered mutation
create_visitor(path, pm, import_externals) ==
  [path |-> path, pm |-> pm, import_externals |-> import_externals]

\* the awaited resolve result fails the task, also when nothing was found
code_generation_return_strict(resolved, visitor) ==
  IF resolved.ok /\ resolved.value.targets # {}
  THEN Ok([visitors |-> <<visitor>>])
  ELSE Err

\* `.await?` on the resolve result, then Ok(CodeGeneration { visitors })
code_generation_return(resolved, visitor) ==
  IF resolved.ok
  THEN Ok([visitors |-> <<visitor>>])
  ELSE Err

\* -------------------------------------------------------------------- state
VARIABLES
  self,                   \* the WorkerAssetReference cell (lines 27-34)
  expr,                   \* the node at the site, visit_mut_expr's `expr` (129)
  ret,                    \* the task that ran last and what it returned
  url_resolve_calls,      \* url_resolve calls of the task that ran last (59-65)
  resolve_request_calls,  \* resolve_request calls of that task (102-115)
  stdout,                 \* lines written by println! (116-122)
  code_gen,               \* the CodeGeneration last returned, if any (158-161)
  visited                 \* the last visitor run: the visitor, and `old_expr` (130)

vars == <<self, expr, ret, url_resolve_calls, resolve_request_calls, stdout,
          code_gen, visited>>

Init ==
  /\ \E origin \in Origins, request \in Requests, path \in Paths,
        issue_source \in IssueSources, in_try \in BOOLEAN,
        import_externals \in BOOLEAN :
       self = new(origin, request, path, issue_source, in_try, import_externals)
  /\ expr \in SiteExprs
  /\ ret = [task |-> "new", result |-> Ok("cell")]
  /\ url_resolve_calls = <<>>
  /\ resolve_request_calls = <<>>
  /\ stdout = <<>>
  /\ code_gen = None
  /\ visited = None

\* -------------------------------------------------------------------- tasks
ResolveReferenceTask ==
  LET call == worker_resolve_reference_inline(self) IN
  /\ ret' = [task |-> "resolve_reference", result |-> url_resolve(call)]
  /\ url_resolve_calls' = <<call>>
  /\ resolve_request_calls' = <<>>
  /\ UNCHANGED <<self, expr, stdout, code_gen, visited>>

ToStringTask ==
  /\ ret' = [task |-> "to_string",
             result |-> Ok("new Worker " \o request_to_string(self.request))]
  /\ url_resolve_calls' = <<>>
  /\ resolve_request_calls' = <<>>
  /\ UNCHANGED <<self, expr, stdout, code_gen, visited>>

ChunkingTypeTask ==
  /\ ret' = [task |-> "chunking_type", result |-> Ok(chunking_type(self))]
  /\ url_resolve_calls' = <<>>
  /\ resolve_request_calls' = <<>>
  /\ UNCHANGED <<self, expr, stdout, code_gen, visited>>

CodeGenerationTask(chunking_context) ==
  LET call == worker_resolve_reference_inline(self)
      pm == resolve_request(self.request, self.origin, chunking_context,
                            url_resolve(call), resolve_type(chunking_context))
      resolved == url_resolve(call)
      visitor == create_visitor(self.path, pm, self.import_externals)
      result == code_generation_return(resolved, visitor)
  IN
  /\ Len(stdout) < MaxOut
  /\ url_resolve_calls' = <<call, call>>
  /\ resolve_request_calls' = <<pm>>
  /\ ret' = [task |-> "code_generation", result |-> result]
  /\ IF resolved.ok
     THEN stdout' = Append(stdout,
                      <<"pm", self.origin, self.request, resolved.value, pm>>)
     ELSE stdout' = stdout
  /\ IF result.ok
     THEN code_gen' = Some(result.value)
     ELSE code_gen' = code_gen
  /\ UNCHANGED <<self, expr, visited>>

\* the code-emission pass runs a registered visitor on the node at its path
VisitorPass ==
  /\ code_gen.some
  /\ \E i \in 1..Len(code_gen.value.visitors) :
       LET visitor == code_gen.value.visitors[i] IN
       /\ visited' = Some([visitor |-> visitor, old_expr |-> expr])
       /\ expr' = visit_mut_expr(expr, visitor.pm, visitor.import_externals)
  /\ UNCHANGED <<self, ret, url_resolve_calls, resolve_request_calls, stdout,
                 code_gen>>

Next ==
  \/ ResolveReferenceTask
  \/ ToStringTask
  \/ ChunkingTypeTask
  \/ \E chunking_context \in ChunkingContexts : CodeGenerationTask(chunking_context)
  \/ VisitorPass

Spec == Init /\ [][Next]_vars

\* -------------------------------------------------------------- properties
\* the node the last visitor run took, and the visitor that ran
Old == visited.value.old_expr
Visitor == visited.value.visitor
OldArgs == Old.args.value
VisitedNew == visited.some /\ Old.type = "New"
VisitedArgs == VisitedNew /\ Old.args.some
Throw(message) == quote_expr([type |-> "Lit", value |-> message])
ExpectedCall ==
  [origin |-> self.origin,
   request |-> self.request,
   reference_type |-> <<"Url", "EcmaScriptNewUrl">>,
   issue_source |-> [some |-> TRUE, value |-> self.issue_source],
   severity |-> IF self.in_try THEN "Warning" ELSE "Error"]

\* C1: a construction expression with exactly one argument A that is not a
\* spread is replaced by create_import(A, import_externals) of the pattern
\* mapping the visitor was registered with, and rewriting the same node again
\* with the same visitor gives the same expression.
C1_SoleArgumentImported ==
  (VisitedArgs /\ Len(OldArgs) = 1 /\ ~OldArgs[1].spread.some)
    => /\ expr = create_import(Visitor.pm, OldArgs[1].expr, self.import_externals)
       /\ Visitor.pm.request = self.request
       /\ visit_mut_expr(Old, Visitor.pm, Visitor.import_externals) = expr

C1_Witness ==
  /\ VisitedArgs
  /\ Len(OldArgs) = 1
  /\ ~OldArgs[1].spread.some
  /\ expr.type = "Import"
  /\ self.import_externals

C4_NoArgumentsThrow ==
  (VisitedNew /\ (~Old.args.some \/ Old.args.value = <<>>))
    => expr = Throw("new Worker() expressions require at least 1 argument")

C4_Witness ==
  /\ VisitedNew
  /\ ~Old.args.some
  /\ expr = Throw("new Worker() expressions require at least 1 argument")

\* C5: a node that is not a construction expression is replaced by the throw
\* expression with the CallExpr message; the visitor always leaves an
\* expression at the site.
C5_NotNewThrows ==
  (visited.some /\ Old.type # "New")
    => expr = Throw("visitor must be executed on a CallExpr")

C5_Witness ==
  /\ visited.some
  /\ Old.type = "Ident"
  /\ expr = Throw("visitor must be executed on a CallExpr")

\* C6: the loader kind handed to the pattern mapping is ChunkItem exactly
\* when the chunking context's chunk loading is Edge, and AsyncChunkLoader
\* otherwise, whatever the reference and the resolve outcome.
C6_LoaderKind ==
  \A i \in 1..Len(resolve_request_calls) :
    LET pm == resolve_request_calls[i] IN
    /\ pm.resolve_type = "ChunkItem" <=> chunk_loading(pm.chunking_context) = "Edge"
    /\ pm.resolve_type \in {"ChunkItem", "AsyncChunkLoader"}

C6_Witness ==
  /\ ret.task = "code_generation"
  /\ Len(resolve_request_calls) = 1
  /\ chunk_loading(resolve_request_calls[1].chunking_context) = "Edge"
  /\ resolve_request_calls[1].resolve_type = "ChunkItem"
  /\ self.request = "./missing.js"

\* C7: chunking_type returns Some(Async) for every reference, whether its
\* request resolves or not, and calls no resolver.
C7_AlwaysAsync ==
  ret.task = "chunking_type"
    => /\ ret.result = [ok |-> TRUE, value |-> [some |-> TRUE, value |-> "Async"]]
       /\ url_resolve_calls = <<>>

C7_Witness ==
  /\ ret.task = "chunking_type"
  /\ self.request = "./missing.js"
  /\ ret.result.value.some

\* C8: every resolver call, of resolve_reference and of code_generation,
\* carries the reference's own origin, request and issue source, the
\* Url / EcmaScriptNewUrl reference type and a severity that is Warning
\* exactly when in_try holds; the resolve result forwarded to the pattern
\* mapping is the one resolve_reference returns.
C8_SameResolverCall ==
  /\ \A i \in 1..Len(url_resolve_calls) : url_resolve_calls[i] = ExpectedCall
  /\ \A i \in 1..Len(resolve_request_calls) :
       resolve_request_calls[i].resolve_result = url_resolve(ExpectedCall)
  /\ ret.task = "resolve_reference"
       => /\ Len(url_resolve_calls) = 1
          /\ ret.result = url_resolve(ExpectedCall)
  /\ ret.task = "code_generation" => Len(url_resolve_calls) > 0

C8_Witness ==
  /\ ret.task = "code_generation"
  /\ self.in_try
  /\ Len(url_resolve_calls) = 2
  /\ url_resolve_calls[1].severity = "Warning"
  /\ Len(resolve_request_calls) = 1

C10_NoObservableEffect == [][self' = self /\ stdout' = stdout]_vars
====
